---- MODULE Spec2Model ----
(***************************************************************************)
(* One WebSocket connection of src/main.rs: handle_socket (the connection  *)
(* supervisor), the spawned initial fetch task, fetch_ohlcv_data (the      *)
(* fetch gateway) and the environment they talk to (the client end of the  *)
(* socket, the external python3 process, the passage of time).             *)
(*                                                                         *)
(* Time is kept as countdowns in seconds.  The action Advance lets time    *)
(* pass up to the next deadline (by ClockStep once all deadlines passed).  *)
(* A timer may fire at any moment at or after its deadline: the runtime    *)
(* gives no bound on how late a ready task is polled.                      *)
(***************************************************************************)
EXTENDS Integers, Sequences, FiniteSets, TLC

\* ---- bounds of the model ----
MaxCandles == 2      \* longest JSON array the external process prints
MaxEvents  == 2      \* timer ticks taken plus frames sent by the client on one connection

\* ---- constants of the program ----
FetchTimeoutSecs == 10     \* timeout(Duration::from_secs(10), ...) in fetch_ohlcv_data
InitialWaitSecs  == 15     \* timeout(Duration::from_secs(15), initial_fetch)
IntervalSecs     == 60     \* interval(Duration::from_secs(60))
ClockStep        == InitialWaitSecs - FetchTimeoutSecs
MaxLate          == ClockStep   \* lateness of an overdue tick is tracked up to one step

Max(a, b) == IF a >= b THEN a ELSE b

\* ---- data ----
\* handle_socket never looks into a candle: candle i stands for the i-th
\* time bucket of the series the script prints
Candle    == 1 .. MaxCandles
Malformed == 0                        \* an array element that is not a CandleData object
Item      == Candle \cup {Malformed}

Series(n) == [i \in 1 .. n |-> i]

\* JSON arrays the script can print: the first n candles, all well-formed or
\* with one element that is not a candle
Arrays ==
    {Series(n) : n \in 0 .. MaxCandles} \cup
    UNION {{[Series(n) EXCEPT ![k] = Malformed] : k \in 1 .. n} : n \in 1 .. MaxCandles}

\* what the process can leave on stderr: nothing, a diagnostic, or bytes that
\* are not valid UTF-8
StderrText == {"", "Traceback", "Trace<FF>"}

\* String::from_utf8_lossy: invalid bytes become U+FFFD
FromUtf8Lossy(bytes) == IF bytes = "Trace<FF>" THEN "Trace<U+FFFD>" ELSE bytes

\* What the external process leaves behind when it is waited for:
\*   spawned = FALSE : Command::output() itself failed (io error)
\*   exit            : exit status (0 is success)
\*   utf8, json      : stdout is valid UTF-8 / parses as a JSON array
\*   items           : the elements of that array
ProcOutput ==
    [spawned : BOOLEAN, exit : {0, 1}, utf8 : BOOLEAN, json : BOOLEAN,
     items : Arrays, stderr : StderrText]

\* stdout as the gateway reads it
Stdout(u, j, a) == [utf8 |-> u, json |-> j, items |-> a]

\* not UTF-8 (hence not JSON), UTF-8 that is not a JSON array, a JSON array
Stdouts ==
    {Stdout(FALSE, FALSE, <<>>), Stdout(TRUE, FALSE, <<>>)} \cup
    {Stdout(TRUE, TRUE, a) : a \in Arrays}

Exited(code, out, err) ==
    [spawned |-> TRUE, exit |-> code, utf8 |-> out.utf8, json |-> out.json,
     items |-> out.items, stderr |-> err]

\* Command::output() failed: nothing was captured
NotStarted ==
    [spawned |-> FALSE, exit |-> 1, utf8 |-> TRUE, json |-> TRUE, items |-> <<>>, stderr |-> ""]

\* Outputs the model enumerates, one representative per distinguishable case
\* (the stderr of a process that exited with 0 is never looked at)
ProcOutcomes ==
    {NotStarted} \cup
    {Exited(0, out, "") : out \in Stdouts} \cup
    {Exited(1, out, err) : out \in Stdouts, err \in StderrText}

\* The process is still running: nothing has been captured.
StillRunning ==
    [spawned |-> TRUE, exit |-> 0, utf8 |-> TRUE, json |-> FALSE, items |-> <<>>, stderr |-> ""]

\* What the timeout wrapper can see of the process when it is polled,
\* <<completed, output, late>>.  Before the deadline: the process complete
\* with some output.
SeenInTime == {<<TRUE, o, FALSE>> : o \in ProcOutcomes}

\* Once the deadline has passed: the same, or the process still running.  The
\* wrapper polls the process before its timer: a process that completed after
\* the deadline (late) but before the poll is seen complete.
SeenOverdue ==
    SeenInTime \cup {<<FALSE, StillRunning, FALSE>>} \cup
    {<<TRUE, o, TRUE>> : o \in ProcOutcomes}

Observations_NoTimeout(left) == SeenInTime

\* with `left` seconds to go
Observations(left) == IF left <= 0 THEN SeenOverdue ELSE SeenInTime

\* Result<Vec<CandleData>, Box<dyn Error>>
OkResult(c)      == [ok |-> TRUE,  candles |-> c,    err |-> "",   text |-> ""]
ErrResult(k, t)  == [ok |-> FALSE, candles |-> <<>>, err |-> k,    text |-> t]
NoResult         == [ok |-> FALSE, candles |-> <<>>, err |-> "None", text |-> ""]

\* serde_json::from_str::<Vec<CandleData>>: every element must be a candle
DecodesAsCandles(items) == \A i \in 1 .. Len(items) : items[i] \in Candle

\* the status is checked after stdout has been decoded
FetchOhlcvData_DecodesFirst(completed, o) ==
    IF ~completed THEN ErrResult("Timeout", "")
    ELSE IF ~o.spawned THEN ErrResult("Io", "")
    ELSE IF ~o.utf8 THEN ErrResult("DecodeFailure", "")
    ELSE IF ~o.json \/ ~DecodesAsCandles(o.items) THEN ErrResult("DecodeFailure", "")
    ELSE IF o.exit # 0 THEN ErrResult("ProcessFailure", FromUtf8Lossy(o.stderr))
    ELSE OkResult(o.items)

\* an empty array is taken for a failure
FetchOhlcvData_EmptyIsError(completed, o) ==
    IF ~completed THEN ErrResult("Timeout", "")
    ELSE IF ~o.spawned THEN ErrResult("Io", "")
    ELSE IF o.exit # 0 THEN ErrResult("ProcessFailure", FromUtf8Lossy(o.stderr))
    ELSE IF ~o.utf8 THEN ErrResult("DecodeFailure", "")
    ELSE IF ~o.json \/ ~DecodesAsCandles(o.items) THEN ErrResult("DecodeFailure", "")
    ELSE IF o.items = <<>> THEN ErrResult("DecodeFailure", "")
    ELSE OkResult(o.items)

\* fetch_ohlcv_data: completed = the process was seen complete by the
\* timeout wrapper before its deadline was seen elapsed.
FetchOhlcvData(completed, o) ==
    IF ~completed THEN ErrResult("Timeout", "")
    ELSE IF ~o.spawned THEN ErrResult("Io", "")
    ELSE IF o.exit # 0 THEN ErrResult("ProcessFailure", FromUtf8Lossy(o.stderr))
    ELSE IF ~o.utf8 THEN ErrResult("DecodeFailure", "")
    ELSE IF ~o.json \/ ~DecodesAsCandles(o.items) THEN ErrResult("DecodeFailure", "")
    ELSE OkResult(o.items)

\* ---- messages ----
\* Message::Text(serde_json::to_string(&PriceUpdate { candles }))
PriceUpdate(c, delivered) == [kind |-> "Text", candles |-> c,    ok |-> delivered]
\* Message::Pong(vec![])
PongMsg(delivered)        == [kind |-> "Pong", candles |-> <<>>, ok |-> delivered]

\* Frames a client sends (Message::Close, Ping, Text, Binary, Pong)
ClientFrame == {"Close", "Ping", "Text", "Binary", "Pong"}

\* ---- state ----
VARIABLES
    pc,             \* where handle_socket is
    sent,           \* every socket.send handle_socket made, in order, with its outcome
    inbound,        \* frames (and a socket error) the socket holds for socket.recv
    ended,          \* the inbound stream has ended: recv yields None once inbound is empty
    sockUp,         \* a send on the socket succeeds
    nframes,        \* frames the client has sent
    earlyClose,     \* the client sent Close before the initial fetch had resolved
    initial_fetch,  \* the spawned task: st, left (its gateway deadline), result
    waitLeft,       \* seconds left of the 15 s wait on initial_fetch
    interval,       \* seconds until the next tick of the interval (<= 0: a tick is due)
    fetchLeft,      \* seconds left of the gateway deadline of the fetch of the tick arm
    inflight,       \* gateway invocations started and not yet returned (0 = initial, n = n-th tick)
    ticks,          \* timer ticks taken
    initialArm,     \* arm of the match on the initial fetch that was taken
    fetched,        \* what fetch_ohlcv_data().await returned in the tick arm, until matched
    observed        \* what the gateway call of the awaited initial fetch saw of python3,
                    \* <<completed, output, late>>, until the match has taken its result

vars == <<pc, sent, inbound, ended, sockUp, nframes, earlyClose, initial_fetch, waitLeft,
          interval, fetchLeft, inflight, ticks, initialArm, fetched, observed>>

sockVars  == <<inbound, ended, sockUp, nframes, earlyClose>>
timerVars == <<waitLeft, interval, fetchLeft>>

NoTimer == IntervalSecs + 1     \* value of a countdown that is not running

\* the awaited initial fetch has returned no value that is still to be matched
NothingObserved == <<>>

Init ==
    /\ pc = "Connecting"
    /\ sent = <<>>
    /\ inbound = <<>>
    /\ ended = FALSE
    /\ sockUp = TRUE
    /\ nframes = 0
    /\ earlyClose = FALSE
    /\ initial_fetch = [st |-> "unspawned", left |-> NoTimer, result |-> NoResult]
    /\ waitLeft = NoTimer
    /\ interval = NoTimer
    /\ fetchLeft = NoTimer
    /\ inflight = {}
    /\ ticks = 0
    /\ initialArm = "none"
    /\ fetched = NoResult
    /\ observed = NothingObserved

\* ---- handle_socket: connecting ----

\* socket.send(Message::Text(json)).await with the result thrown away
SendAck_Skipped ==
    /\ pc = "Connecting"
    /\ pc' = "Spawning"
    /\ UNCHANGED <<sent, sockVars, initial_fetch, timerVars, inflight, ticks,
                   initialArm, fetched, observed>>

SendAck ==
    /\ pc = "Connecting"
    /\ sent' = Append(sent, PriceUpdate(<<>>, sockUp))
    /\ pc' = "Spawning"
    /\ UNCHANGED <<sockVars, initial_fetch, timerVars, inflight, ticks,
                   initialArm, fetched, observed>>

\* tokio::spawn(async { fetch_ohlcv_data().await }) and the creation of the
\* 15 s timeout around its JoinHandle
SpawnInitialFetch ==
    /\ pc = "Spawning"
    /\ initial_fetch' = [initial_fetch EXCEPT !.st = "spawned"]
    /\ waitLeft' = InitialWaitSecs
    /\ pc' = "AwaitingInitialFetch"
    /\ UNCHANGED <<sent, sockVars, interval, fetchLeft, inflight, ticks,
                   initialArm, fetched, observed>>

\* ---- the spawned task ----

\* first poll of the task: fetch_ohlcv_data starts python3 under its 10 s timeout
TaskStart ==
    /\ initial_fetch.st = "spawned"
    /\ initial_fetch' = [initial_fetch EXCEPT !.st = "running", !.left = FetchTimeoutSecs]
    /\ inflight' = inflight \cup {0}
    /\ UNCHANGED <<pc, sent, sockVars, timerVars, ticks, initialArm, fetched, observed>>

\* fetch_ohlcv_data returns inside the task: the process completed, or the
\* 10 s deadline was seen elapsed first
TaskReturns(obs) ==
    /\ initial_fetch.st = "running"
    /\ IF pc = "AwaitingInitialFetch"
       THEN /\ initial_fetch' = [st |-> "finished", left |-> NoTimer,
                                 result |-> FetchOhlcvData(obs[1], obs[2])]
            /\ observed' = obs
       ELSE \* the JoinHandle was dropped: the value is dropped with the task
            /\ initial_fetch' = [st |-> "finished", left |-> NoTimer, result |-> NoResult]
            /\ observed' = observed
    /\ inflight' = inflight \ {0}
    /\ UNCHANGED <<pc, sent, sockVars, timerVars, ticks, initialArm, fetched>>

TaskFinish == \E obs \in Observations(initial_fetch.left) : TaskReturns(obs)

\* the task ends without a value (panic, cancellation): JoinError
TaskAbort ==
    /\ initial_fetch.st = "running"
    /\ initial_fetch' = [st |-> "failed", left |-> NoTimer, result |-> NoResult]
    /\ inflight' = inflight \ {0}
    /\ UNCHANGED <<pc, sent, sockVars, timerVars, ticks, initialArm, fetched, observed>>

\* ---- handle_socket: the match on timeout(15 s, initial_fetch) ----

\* the JoinHandle has yielded its value
Joined == [st |-> "joined", left |-> NoTimer, result |-> NoResult]

\* let mut interval = interval(60 s): the first tick of a tokio interval
\* completes immediately
EnterStreaming(arm) ==
    /\ initialArm' = arm
    /\ waitLeft' = NoTimer
    /\ interval' = 0
    /\ pc' = "Streaming"
    /\ UNCHANGED <<sockVars, fetchLeft, inflight, ticks>>

InitialData_SendsEmpty ==
    /\ pc = "AwaitingInitialFetch"
    /\ initial_fetch.st = "finished"
    /\ initial_fetch.result.ok
    /\ initial_fetch.result.candles # <<>>
    /\ sent' = Append(sent, PriceUpdate(<<>>, sockUp))
    /\ fetched' = fetched
    /\ observed' = NothingObserved
    /\ initial_fetch' = Joined
    /\ EnterStreaming("data")

\* Ok(Ok(Ok(candles))) if !candles.is_empty()
InitialData ==
    /\ pc = "AwaitingInitialFetch"
    /\ initial_fetch.st = "finished"
    /\ initial_fetch.result.ok
    /\ initial_fetch.result.candles # <<>>
    /\ sent' = Append(sent, PriceUpdate(initial_fetch.result.candles, sockUp))
    /\ fetched' = fetched
    /\ observed' = NothingObserved
    /\ initial_fetch' = Joined
    /\ EnterStreaming("data")

\* Ok(Ok(Ok(candles))) with candles empty: the match has no arm for it (the
\* first arm is guarded); it is taken as falling through to the loop with
\* nothing sent
InitialEmpty ==
    /\ pc = "AwaitingInitialFetch"
    /\ initial_fetch.st = "finished"
    /\ initial_fetch.result.ok
    /\ initial_fetch.result.candles = <<>>
    /\ sent' = sent
    /\ fetched' = fetched
    /\ observed' = NothingObserved
    /\ initial_fetch' = Joined
    /\ EnterStreaming("empty")

InitialError_Fatal ==
    /\ pc = "AwaitingInitialFetch"
    /\ initial_fetch.st = "finished"
    /\ ~initial_fetch.result.ok
    /\ sent' = Append(sent, PriceUpdate(<<>>, sockUp))
    /\ fetched' = fetched
    /\ observed' = NothingObserved
    /\ initial_fetch' = Joined
    /\ initialArm' = "error"
    /\ waitLeft' = NoTimer
    /\ pc' = "Closed"
    /\ UNCHANGED <<sockVars, interval, fetchLeft, inflight, ticks>>

\* Ok(Ok(Err(e))): "Send error message to client"
InitialError ==
    /\ pc = "AwaitingInitialFetch"
    /\ initial_fetch.st = "finished"
    /\ ~initial_fetch.result.ok
    /\ sent' = Append(sent, PriceUpdate(<<>>, sockUp))
    /\ fetched' = fetched
    /\ observed' = NothingObserved
    /\ initial_fetch' = Joined
    /\ EnterStreaming("error")

\* Ok(Err(_)): "Initial fetch task failed"
InitialJoinError ==
    /\ pc = "AwaitingInitialFetch"
    /\ initial_fetch.st = "failed"
    /\ UNCHANGED <<sent, fetched, observed>>
    /\ initial_fetch' = Joined
    /\ EnterStreaming("joinerror")

InitialTimeout_SendsEmpty ==
    /\ pc = "AwaitingInitialFetch"
    /\ initial_fetch.st \in {"spawned", "running"}
    /\ waitLeft <= 0
    /\ sent' = Append(sent, PriceUpdate(<<>>, sockUp))
    /\ UNCHANGED <<fetched, observed, initial_fetch>>
    /\ EnterStreaming("timeout")

InitialTimeout_AbortsTask ==
    /\ pc = "AwaitingInitialFetch"
    /\ initial_fetch.st \in {"spawned", "running"}
    /\ waitLeft <= 0
    /\ UNCHANGED <<sent, fetched, observed>>
    /\ initial_fetch' = [st |-> "failed", left |-> NoTimer, result |-> NoResult]
    /\ initialArm' = "timeout"
    /\ waitLeft' = NoTimer
    /\ interval' = 0
    /\ pc' = "Streaming"
    /\ inflight' = inflight \ {0}
    /\ UNCHANGED <<sockVars, fetchLeft, ticks>>

\* Err(_): "Initial fetch timed out"; the JoinHandle is dropped, the task
\* keeps running
InitialTimeout ==
    /\ pc = "AwaitingInitialFetch"
    /\ initial_fetch.st \in {"spawned", "running"}
    /\ waitLeft <= 0
    /\ UNCHANGED <<sent, fetched, observed>>
    /\ UNCHANGED initial_fetch
    /\ EnterStreaming("timeout")

\* ---- handle_socket: the loop ----

\* `_ = interval.tick() =>` wins the select: fetch_ohlcv_data() is called and
\* awaited inside the arm; a tick is due every IntervalSecs from the first one
TimerTick_NoAwait ==
    /\ pc = "Streaming"
    /\ interval <= 0
    /\ ticks + nframes < MaxEvents
    /\ ticks' = ticks + 1
    /\ interval' = interval + IntervalSecs
    /\ fetchLeft' = FetchTimeoutSecs
    /\ inflight' = inflight \cup {ticks + 1}
    /\ pc' = "Streaming"
    /\ UNCHANGED <<sent, sockVars, initial_fetch, waitLeft, initialArm, fetched, observed>>

TimerTick ==
    /\ pc = "Streaming"
    /\ interval <= 0
    /\ ticks + nframes < MaxEvents
    /\ ticks' = ticks + 1
    /\ interval' = interval + IntervalSecs
    /\ fetchLeft' = FetchTimeoutSecs
    /\ inflight' = inflight \cup {ticks + 1}
    /\ pc' = "TickFetch"
    /\ UNCHANGED <<sent, sockVars, initial_fetch, waitLeft, initialArm, fetched, observed>>

\* fetch_ohlcv_data().await returns in the tick arm
TickFetchReturns(obs) ==
    /\ pc = "TickFetch"
    /\ fetched' = FetchOhlcvData(obs[1], obs[2])
    /\ fetchLeft' = NoTimer
    /\ inflight' = inflight \ {ticks}
    /\ pc' = "TickMatch"
    /\ UNCHANGED <<sent, sockVars, initial_fetch, waitLeft, interval, ticks, initialArm,
                   observed>>

TickFetchReturn == \E obs \in Observations(fetchLeft) : TickFetchReturns(obs)

TickMatch_ErrBreaks ==
    /\ pc = "TickMatch"
    /\ IF fetched.ok /\ fetched.candles # <<>>
       THEN /\ sent' = Append(sent, PriceUpdate(fetched.candles, sockUp))
            /\ pc' = IF sockUp THEN "Streaming" ELSE "Closed"
            /\ interval' = IF sockUp THEN interval ELSE NoTimer
       ELSE /\ sent' = sent
            /\ pc' = IF fetched.ok THEN "Streaming" ELSE "Closed"
            /\ interval' = IF fetched.ok THEN interval ELSE NoTimer
    /\ fetched' = NoResult
    /\ UNCHANGED <<sockVars, initial_fetch, waitLeft, fetchLeft, inflight, ticks, initialArm,
                   observed>>

TickMatch_IgnoresSendFailure ==
    /\ pc = "TickMatch"
    /\ IF fetched.ok /\ fetched.candles # <<>>
       THEN sent' = Append(sent, PriceUpdate(fetched.candles, sockUp))
       ELSE sent' = sent
    /\ pc' = "Streaming"
    /\ fetched' = NoResult
    /\ UNCHANGED <<sockVars, initial_fetch, timerVars, inflight, ticks, initialArm, observed>>

TickMatch_SendsEmpty ==
    /\ pc = "TickMatch"
    /\ IF fetched.ok
       THEN /\ sent' = Append(sent, PriceUpdate(fetched.candles, sockUp))
            /\ pc' = IF sockUp THEN "Streaming" ELSE "Closed"
            /\ interval' = IF sockUp THEN interval ELSE NoTimer
       ELSE /\ sent' = sent
            /\ pc' = "Streaming"
            /\ interval' = interval
    /\ fetched' = NoResult
    /\ UNCHANGED <<sockVars, initial_fetch, waitLeft, fetchLeft, inflight, ticks, initialArm,
                   observed>>

TickMatch_NotifiesFailure ==
    /\ pc = "TickMatch"
    /\ IF fetched.ok /\ fetched.candles # <<>>
       THEN /\ sent' = Append(sent, PriceUpdate(fetched.candles, sockUp))
            /\ pc' = IF sockUp THEN "Streaming" ELSE "Closed"
            /\ interval' = IF sockUp THEN interval ELSE NoTimer
       ELSE /\ sent' = IF fetched.ok THEN sent ELSE Append(sent, PriceUpdate(<<>>, sockUp))
            /\ pc' = "Streaming"
            /\ interval' = interval
    /\ fetched' = NoResult
    /\ UNCHANGED <<sockVars, initial_fetch, waitLeft, fetchLeft, inflight, ticks, initialArm,
                   observed>>

\* the match on the value the fetch returned
TickMatch ==
    /\ pc = "TickMatch"
    /\ IF fetched.ok /\ fetched.candles # <<>>
       THEN \* Ok(candles) if !candles.is_empty(): send, break if the send failed
            /\ sent' = Append(sent, PriceUpdate(fetched.candles, sockUp))
            /\ pc' = IF sockUp THEN "Streaming" ELSE "Closed"
            /\ interval' = IF sockUp THEN interval ELSE NoTimer
       ELSE \* Ok(_) "Received empty candle data", Err(e) "Error fetching data"
            /\ sent' = sent
            /\ pc' = "Streaming"
            /\ interval' = interval
    /\ fetched' = NoResult
    /\ UNCHANGED <<sockVars, initial_fetch, waitLeft, fetchLeft, inflight, ticks, initialArm,
                   observed>>

RecvReady_AfterBreak == pc \in {"Streaming", "Closed"} /\ inbound # <<>>

\* `result = socket.recv() =>` wins the select
RecvReady == pc = "Streaming" /\ inbound # <<>>

\* Some(Ok(Message::Close(_))): break
RecvClose ==
    /\ RecvReady
    /\ Head(inbound) = "Close"
    /\ inbound' = Tail(inbound)
    /\ pc' = "Closed"
    /\ interval' = NoTimer
    /\ UNCHANGED <<sent, ended, sockUp, nframes, earlyClose, initial_fetch, waitLeft, fetchLeft,
                   inflight, ticks, initialArm, fetched, observed>>

RecvPing_NoPong ==
    /\ RecvReady
    /\ Head(inbound) = "Ping"
    /\ inbound' = Tail(inbound)
    /\ pc' = "Streaming"
    /\ UNCHANGED <<sent, ended, sockUp, nframes, earlyClose, initial_fetch, timerVars,
                   inflight, ticks, initialArm, fetched, observed>>

RecvPing_BreaksOnFailure ==
    /\ RecvReady
    /\ Head(inbound) = "Ping"
    /\ inbound' = Tail(inbound)
    /\ sent' = Append(sent, PongMsg(sockUp))
    /\ pc' = IF sockUp THEN "Streaming" ELSE "Closed"
    /\ interval' = IF sockUp THEN interval ELSE NoTimer
    /\ UNCHANGED <<ended, sockUp, nframes, earlyClose, initial_fetch, waitLeft, fetchLeft,
                   inflight, ticks, initialArm, fetched, observed>>

\* Some(Ok(Message::Ping(_))): send a Pong, result thrown away
RecvPing ==
    /\ RecvReady
    /\ Head(inbound) = "Ping"
    /\ inbound' = Tail(inbound)
    /\ sent' = Append(sent, PongMsg(sockUp))
    /\ pc' = "Streaming"
    /\ UNCHANGED <<ended, sockUp, nframes, earlyClose, initial_fetch, timerVars,
                   inflight, ticks, initialArm, fetched, observed>>

RecvOther_Replies ==
    /\ RecvReady
    /\ Head(inbound) \notin {"Close", "Ping", "Error"}
    /\ inbound' = Tail(inbound)
    /\ sent' = Append(sent, PriceUpdate(<<>>, sockUp))
    /\ pc' = "Streaming"
    /\ UNCHANGED <<ended, sockUp, nframes, earlyClose, initial_fetch, timerVars,
                   inflight, ticks, initialArm, fetched, observed>>

\* Some(Ok(_)): any other message
RecvOther ==
    /\ RecvReady
    /\ Head(inbound) \notin {"Close", "Ping", "Error"}
    /\ inbound' = Tail(inbound)
    /\ pc' = "Streaming"
    /\ UNCHANGED <<sent, ended, sockUp, nframes, earlyClose, initial_fetch, timerVars,
                   inflight, ticks, initialArm, fetched, observed>>

RecvError_Continues ==
    /\ RecvReady
    /\ Head(inbound) = "Error"
    /\ inbound' = Tail(inbound)
    /\ pc' = "Streaming"
    /\ UNCHANGED <<sent, ended, sockUp, nframes, earlyClose, initial_fetch, timerVars,
                   inflight, ticks, initialArm, fetched, observed>>

\* Some(Err(e)): break
RecvError ==
    /\ RecvReady
    /\ Head(inbound) = "Error"
    /\ inbound' = Tail(inbound)
    /\ pc' = "Closed"
    /\ interval' = NoTimer
    /\ UNCHANGED <<sent, ended, sockUp, nframes, earlyClose, initial_fetch, waitLeft, fetchLeft,
                   inflight, ticks, initialArm, fetched, observed>>

\* None: break
RecvNone ==
    /\ pc = "Streaming"
    /\ inbound = <<>>
    /\ ended
    /\ pc' = "Closed"
    /\ interval' = NoTimer
    /\ UNCHANGED <<sent, sockVars, initial_fetch, waitLeft, fetchLeft,
                   inflight, ticks, initialArm, fetched, observed>>

\* ---- the environment ----

\* the initial fetch has not returned and handle_socket has not left its wait
InitialUnresolved ==
    /\ pc \in {"Connecting", "Spawning", "AwaitingInitialFetch"}
    /\ initial_fetch.st \in {"unspawned", "spawned", "running"}

\* handle_socket still owns the socket (it is dropped when the function returns)
SocketHeld == pc # "Closed"

InboundOpen ==
    /\ SocketHeld
    /\ ~ended
    /\ \A i \in 1 .. Len(inbound) : inbound[i] \notin {"Close", "Error"}

\* the client sends a frame; Close is the last frame a client sends
ClientSend ==
    /\ InboundOpen
    /\ ticks + nframes < MaxEvents
    /\ \E f \in ClientFrame :
          /\ inbound' = Append(inbound, f)
          /\ earlyClose' = (earlyClose \/ (f = "Close" /\ InitialUnresolved))
    /\ nframes' = nframes + 1
    /\ UNCHANGED <<pc, sent, ended, sockUp, initial_fetch, timerVars, inflight,
                   ticks, initialArm, fetched, observed>>

\* the connection breaks: sends fail from now on, recv will report an error
SocketBreak ==
    /\ SocketHeld
    /\ ~ended
    /\ \A i \in 1 .. Len(inbound) : inbound[i] # "Error"
    /\ sockUp
    /\ sockUp' = FALSE
    /\ inbound' = Append(inbound, "Error")
    /\ UNCHANGED <<pc, sent, ended, nframes, earlyClose, initial_fetch, timerVars, inflight,
                   ticks, initialArm, fetched, observed>>

\* the peer goes away without a Close frame: the inbound stream ends
StreamEnd ==
    /\ SocketHeld
    /\ ~ended
    /\ \A i \in 1 .. Len(inbound) : inbound[i] # "Error"
    /\ ended' = TRUE
    /\ sockUp' = FALSE
    /\ UNCHANGED <<pc, sent, inbound, nframes, earlyClose, initial_fetch, timerVars, inflight,
                   ticks, initialArm, fetched, observed>>

Pending == {t \in {waitLeft, fetchLeft, interval, initial_fetch.left} : t # NoTimer /\ t > 0}

Min(S) == CHOOSE x \in S : \A y \in S : x <= y

\* seconds to the next deadline
Leap == IF Pending = {} THEN ClockStep ELSE Min(Pending)

Lower(t, floor) == IF t = NoTimer THEN NoTimer ELSE Max(t - Leap, floor)

\* time passes
Advance ==
    /\ waitLeft' = Lower(waitLeft, 0)
    /\ fetchLeft' = Lower(fetchLeft, 0)
    /\ interval' = Lower(interval, 0 - MaxLate)
    /\ initial_fetch' = [initial_fetch EXCEPT !.left = Lower(@, 0)]
    /\ <<waitLeft', fetchLeft', interval', initial_fetch'>>
           # <<waitLeft, fetchLeft, interval, initial_fetch>>
    /\ UNCHANGED <<pc, sent, sockVars, inflight, ticks, initialArm, fetched, observed>>

\* ---- the system ----

Handler ==
    \/ SendAck
    \/ SpawnInitialFetch
    \/ InitialData
    \/ InitialEmpty
    \/ InitialError
    \/ InitialJoinError
    \/ InitialTimeout
    \/ TimerTick
    \/ TickFetchReturn
    \/ TickMatch
    \/ RecvClose
    \/ RecvPing
    \/ RecvOther
    \/ RecvError
    \/ RecvNone

Task == TaskStart \/ TaskFinish \/ TaskAbort

Environment == ClientSend \/ SocketBreak \/ StreamEnd \/ Advance

Next == Handler \/ Task \/ Environment

Spec == Init /\ [][Next]_vars

\* the 10 s timeout of a gateway call fires while python3 is still running
TimedOut == <<FALSE, StillRunning, FALSE>>

\* steps of handle_socket that need nothing from the external process
HandlerRuns ==
    \/ SendAck
    \/ SpawnInitialFetch
    \/ InitialData
    \/ InitialEmpty
    \/ InitialError
    \/ InitialJoinError
    \/ InitialTimeout
    \/ TimerTick
    \/ TimedOut \in Observations(fetchLeft) /\ TickFetchReturns(TimedOut)
    \/ TickMatch
    \/ RecvClose
    \/ RecvPing
    \/ RecvOther
    \/ RecvError
    \/ RecvNone

TaskRuns ==
    \/ TaskStart
    \/ TimedOut \in Observations(initial_fetch.left) /\ TaskReturns(TimedOut)

\* the runtime polls every ready task and timers fire; nothing makes the
\* external process ever complete
FairSpec == Spec /\ WF_vars(HandlerRuns) /\ WF_vars(TaskRuns) /\ WF_vars(Advance)

\* ---- properties ----

Ack == PriceUpdate(<<>>, TRUE)

IsEmptyUpdate(m) == m.kind = "Text" /\ m.candles = <<>>
IsDataUpdate(m)  == m.kind = "Text" /\ m.candles # <<>>

EmptyUpdates == Cardinality({i \in 1 .. Len(sent) : IsEmptyUpdate(sent[i])})

Last(q) == q[Len(q)]

\* C1: the first message sent on a connection is the empty-candle PriceUpdate,
\* and it has been sent before the initial fetch is dispatched, whatever
\* becomes of that fetch.
C1_AckBeforeFetch ==
    /\ Len(sent) >= 1 => IsEmptyUpdate(sent[1])
    /\ initial_fetch.st # "unspawned" => Len(sent) >= 1
    /\ inflight # {} => Len(sent) >= 1

C1_Witness ==
    /\ pc = "Streaming"
    /\ initialArm = "timeout"
    /\ initial_fetch.st = "running"
    /\ sent = <<Ack>>

\* C2: when the initial fetch has returned a non-empty candle sequence, the
\* step that leaves the wait has sent exactly two messages: the empty-candle
\* ack, then a PriceUpdate with exactly the fetched candles; both reach the
\* client when the socket is up.
C2_AckThenData ==
    [][(/\ pc = "AwaitingInitialFetch"
        /\ pc' # pc
        /\ initial_fetch.st = "finished"
        /\ initial_fetch.result.ok
        /\ initial_fetch.result.candles # <<>>)
       => (/\ Len(sent') = 2
           /\ IsEmptyUpdate(sent'[1])
           /\ sent'[2].kind = "Text"
           /\ sent'[2].candles = initial_fetch.result.candles
           /\ sockUp => sent'[1].ok /\ sent'[2].ok)]_vars

C2_Witness ==
    /\ pc = "Streaming"
    /\ initialArm = "data"
    /\ ticks = 0
    /\ Len(sent) = 2
    /\ sent[1] = Ack
    /\ sent[2] = PriceUpdate(<<1, 2>>, TRUE)

FailedArms == {"error", "joinerror", "timeout"}

\* C3 as stated: after a failed or timed out initial fetch the empty-candle
\* message has been sent exactly once.
C3_Original == initialArm \in FailedArms => EmptyUpdates = 1

\* C3 amended: after a failed initial fetch the empty-candle message has been
\* sent twice when the gateway returned an error (its own timeout included),
\* once when the task failed or the 15 s wait timed out; every message sent
\* later is a Pong or the non-empty candles of a timer-driven fetch.
C3_Amended ==
    /\ [](initialArm \in FailedArms =>
            /\ EmptyUpdates = IF initialArm = "error" THEN 2 ELSE 1
            /\ \A i \in 1 .. Len(sent) : IsEmptyUpdate(sent[i]) => i <= 2)
    /\ [][(initialArm \in FailedArms /\ sent' # sent)
          => \/ /\ sent' = Append(sent, PongMsg(sockUp))
                /\ RecvReady
                /\ Head(inbound) = "Ping"
             \/ /\ pc = "TickMatch"
                /\ fetched.ok
                /\ fetched.candles # <<>>
                /\ sent' = Append(sent, PriceUpdate(fetched.candles, sockUp))]_vars

C3_Witness ==
    /\ initialArm = "error"
    /\ pc = "Streaming"
    /\ ticks = 0
    /\ sent = <<Ack, Ack>>

\* C4: once the client has sent Close before the initial fetch resolved,
\* handle_socket sends nothing while it is still in its wait on the fetch.
C4_CloseSkipsInitialSend ==
    [][(earlyClose /\ pc = "AwaitingInitialFetch") => sent' = sent]_vars

\* C5: in Streaming, the step that takes a Ping off the socket sends exactly
\* one Pong, sends nothing else, and leaves the connection in Streaming.
C5_PingPong ==
    [][(/\ pc = "Streaming"
        /\ inbound # <<>>
        /\ Head(inbound) = "Ping"
        /\ inbound' # inbound
        /\ Len(inbound') < Len(inbound))
       => (/\ sent' = Append(sent, PongMsg(sockUp))
           /\ pc' = "Streaming"
           /\ inflight' = inflight)]_vars

C5_Witness ==
    /\ pc = "Streaming"
    /\ sent # <<>>
    /\ Last(sent) = PongMsg(TRUE)
    /\ inbound = <<>>

RecvCloses ==
    \/ inbound # <<>> /\ Head(inbound) \in {"Close", "Error"} /\ inbound' = Tail(inbound)
    \/ inbound = <<>> /\ ended

\* C7: the connection becomes Closed only on a Close frame, a socket error or
\* the end of the stream taken from recv, or on a failed send of timer data;
\* a timer fetch that returns an error or nothing leaves it in Streaming.
C7_OnlySocketCloses ==
    /\ [][(pc # "Closed" /\ pc' = "Closed")
          => \/ pc = "Streaming" /\ RecvCloses /\ sent' = sent
             \/ /\ pc = "TickMatch"
                /\ Len(sent') = Len(sent) + 1
                /\ ~Last(sent').ok]_vars
    /\ [][pc = "TickFetch" => pc' \in {"TickFetch", "TickMatch"}]_vars
    /\ [][(pc = "TickMatch" /\ pc' # pc /\ ~fetched.ok) => pc' = "Streaming"]_vars
    /\ [][(pc = "TickMatch" /\ pc' # pc /\ fetched.candles = <<>>) => pc' = "Streaming"]_vars

C7_Witness ==
    /\ pc = "Streaming"
    /\ ticks = 1
    /\ interval > 0
    /\ initialArm = "joinerror"
    /\ sent = <<Ack>>
    /\ sockUp

\* C8: a timer fetch that returns a non-empty sequence is followed by one
\* PriceUpdate with those candles; the connection is Closed if that send
\* failed and in Streaming otherwise.
C8_TickData ==
    [][(/\ pc = "TickMatch"
        /\ pc' # pc
        /\ fetched.ok
        /\ fetched.candles # <<>>)
       => (/\ sent' = Append(sent, PriceUpdate(fetched.candles, sockUp))
           /\ pc' = IF Last(sent').ok THEN "Streaming" ELSE "Closed")]_vars

C8_Witness ==
    /\ pc = "Closed"
    /\ initialArm = "timeout"
    /\ ticks = 1
    /\ Len(sent) = 2
    /\ sent[2] = PriceUpdate(<<1>>, FALSE)

\* C9: a timer fetch that returns an empty sequence or an error sends nothing
\* and leaves the connection in Streaming.
C9_TickNothing ==
    /\ [][pc = "TickFetch" => sent' = sent]_vars
    /\ [][(/\ pc = "TickMatch"
           /\ pc' # pc
           /\ (~fetched.ok \/ fetched.candles = <<>>))
          => (sent' = sent /\ pc' = "Streaming")]_vars

C9_Witness ==
    /\ pc = "Streaming"
    /\ ticks = 1
    /\ interval > 0
    /\ initialArm = "data"
    /\ Len(sent) = 2

\* C10 as stated: at most one gateway invocation of the connection is in
\* flight at any moment.
C10_Original == Cardinality(inflight) <= 1

\* C10 amended: timer-driven fetches never overlap each other, and
\* handle_socket does nothing else while one is in flight; the only overlap
\* is with the initial fetch left running after the 15 s wait timed out.
C10_Amended ==
    /\ Cardinality(inflight \ {0}) <= 1
    /\ inflight \ {0} # {} => pc = "TickFetch" /\ inflight \ {0} = {ticks}
    /\ pc = "TickFetch" => ticks \in inflight
    /\ Cardinality(inflight) >= 2 => initialArm = "timeout" /\ inflight = {0, ticks}

C10_Witness ==
    /\ inflight = {0, 1}
    /\ pc = "TickFetch"

\* C11: Closed is terminal: once handle_socket has left the loop it makes no
\* send (data or Pong), takes no frame and no timer tick, and starts no fetch;
\* the one gateway call that may still be in flight is the detached initial
\* fetch spawned before.
C11_ClosedIsTerminal ==
    [][pc = "Closed"
       => /\ pc' = "Closed"
          /\ sent' = sent
          /\ ticks' = ticks
          /\ inbound' = inbound
          /\ inflight' \ {0} = {}
          /\ initial_fetch.st \notin {"spawned", "running"} => inflight' = {}
          /\ fetched' = fetched]_vars

C11_Witness ==
    /\ pc = "Closed"
    /\ inbound # <<>>
    /\ Head(inbound) = "Ping"
    /\ ~Last(sent).ok
    /\ initial_fetch.st = "finished"
    /\ initialArm = "timeout"

\* stderr texts that are valid UTF-8
ValidText == {"", "Traceback"}

\* the awaited initial fetch has returned and its value is still to be matched
InitialReturned ==
    /\ pc = "AwaitingInitialFetch"
    /\ initial_fetch.st = "finished"
    /\ observed # NothingObserved

\* C12: when python3 completed within the 10 s and exited non-zero, the
\* gateway's result is an error that carries the text of stderr (bytes that
\* are not UTF-8 replaced) and no candles, whatever stdout held.
C12_NonZeroExitCarriesStderr ==
    /\ observed # NothingObserved => InitialReturned
    /\ (/\ InitialReturned
        /\ observed[1]
        /\ observed[2].spawned
        /\ observed[2].exit # 0)
       => /\ ~initial_fetch.result.ok
          /\ initial_fetch.result.err = "ProcessFailure"
          /\ initial_fetch.result.candles = <<>>
          /\ observed[2].stderr \in ValidText
                => initial_fetch.result.text = observed[2].stderr
          /\ observed[2].stderr \notin ValidText
                => initial_fetch.result.text = "Trace<U+FFFD>"

\* python3 exited with 1 after printing a well-formed array of two candles
C12_Witness ==
    /\ InitialReturned
    /\ observed[1]
    /\ observed[2].spawned
    /\ observed[2].exit = 1
    /\ observed[2].items = <<1, 2>>
    /\ observed[2].stderr = "Traceback"
    /\ initial_fetch.result.text = "Traceback"

CloseRequested ==
    \/ \E i \in 1 .. Len(inbound) : inbound[i] \in {"Close", "Error"}
    \/ ended

\* C14: once the client has sent Close, or the socket has errored or its
\* stream has ended, the connection reaches Closed, whatever the fetches do
\* (fail, time out, or be in flight at that moment).
C14_NeverHangsOpen == CloseRequested ~> (pc = "Closed")

\* closed by a Close frame after the initial fetch timed out (it is still in
\* flight) and the fetch of the first tick gave nothing
C14_Witness ==
    /\ pc = "Closed"
    /\ initialArm = "timeout"
    /\ initial_fetch.st = "running"
    /\ ticks = 1
    /\ sent = <<Ack>>
    /\ inbound = <<>>
    /\ sockUp
    /\ ~ended

\* C15: in Streaming, the step that takes a Text, Binary or Pong frame off the
\* socket sends nothing, starts no fetch, leaves the timer alone and stays in
\* Streaming.
C15_OtherFramesIgnored ==
    [][(/\ pc = "Streaming"
        /\ inbound # <<>>
        /\ Head(inbound) \in {"Text", "Binary", "Pong"}
        /\ inbound' = Tail(inbound))
       => (/\ sent' = sent
           /\ pc' = "Streaming"
           /\ inflight' = inflight
           /\ ticks' = ticks
           /\ interval' = interval
           /\ fetched' = fetched)]_vars

\* two frames have been taken and neither was answered
C15_Witness ==
    /\ pc = "Streaming"
    /\ nframes = 2
    /\ inbound = <<>>
    /\ sent = <<Ack>>
    /\ ticks = 0
    /\ initialArm = "joinerror"

\* stdout is a JSON array of candles
WellFormed(o) == o.utf8 /\ o.json /\ \A i \in 1 .. Len(o.items) : o.items[i] \in Candle

\* python3 completed within the 10 s
WithinBudget(obs) == obs[1] /\ ~obs[3]

\* C16 as stated: each invocation has one of four outcomes: Timeout if python3
\* did not complete within the budget, else ProcessFailure on a non-zero
\* exit, else DecodeFailure if stdout is not a JSON array of candles, else
\* the decoded sequence (empty included).
C16_Original ==
    InitialReturned =>
        LET r == initial_fetch.result
            o == observed[2]
        IN  /\ r.ok \/ r.err \in {"Timeout", "ProcessFailure", "DecodeFailure"}
            /\ ~WithinBudget(observed) => r.err = "Timeout"
            /\ (WithinBudget(observed) /\ o.spawned /\ o.exit # 0)
                  => r.err = "ProcessFailure"
            /\ (WithinBudget(observed) /\ o.spawned /\ o.exit = 0 /\ ~WellFormed(o))
                  => r.err = "DecodeFailure"
            /\ (WithinBudget(observed) /\ o.spawned /\ o.exit = 0 /\ WellFormed(o))
                  => r = OkResult(o.items)

\* C16 amended: Timeout if the 10 s timeout fired before python3 was seen
\* complete; else the io error if python3 could not be run; else
\* ProcessFailure on a non-zero exit; else DecodeFailure if stdout is not a
\* JSON array of candles; else the decoded sequence (empty included).  The
\* value of a timer-driven call is one of these outcomes too.
C16_Amended ==
    /\ InitialReturned =>
        LET r == initial_fetch.result
            o == observed[2]
        IN  /\ r.ok \/ r.err \in {"Timeout", "Io", "ProcessFailure", "DecodeFailure"}
            /\ ~observed[1] => r = ErrResult("Timeout", "")
            /\ (observed[1] /\ ~o.spawned) => r = ErrResult("Io", "")
            /\ (observed[1] /\ o.spawned /\ o.exit # 0)
                  => r.err = "ProcessFailure" /\ ~r.ok /\ r.candles = <<>>
            /\ (observed[1] /\ o.spawned /\ o.exit = 0 /\ ~WellFormed(o))
                  => r = ErrResult("DecodeFailure", "")
            /\ (observed[1] /\ o.spawned /\ o.exit = 0 /\ WellFormed(o))
                  => r = OkResult(o.items)
    /\ pc = "TickMatch" =>
            /\ fetched.ok \/ fetched.err \in {"Timeout", "Io", "ProcessFailure", "DecodeFailure"}
            /\ fetched.ok => \A i \in 1 .. Len(fetched.candles) : fetched.candles[i] \in Candle
            /\ ~fetched.ok => fetched.candles = <<>>

\* python3 could not be started: the io error is returned
C16_Witness ==
    /\ InitialReturned
    /\ observed = <<TRUE, NotStarted, FALSE>>
    /\ initial_fetch.result = ErrResult("Io", "")

\* C17: when the 15 s wait on the initial fetch times out, the task is left
\* as it is (still to run or running, its gateway call still in flight) and
\* nothing is sent; when the task ends later, nothing of the connection
\* changes and its value is gone; every message sent after the timeout is a
\* Pong for a Ping or the candles of a timer-driven fetch.
C17_LateInitialResultDiscarded ==
    /\ [][(/\ pc = "AwaitingInitialFetch"
           /\ pc' = "Streaming"
           /\ initial_fetch.st \in {"spawned", "running"})
          => (/\ initial_fetch' = initial_fetch
              /\ inflight' = inflight
              /\ sent' = sent)]_vars
    /\ [][(/\ initialArm = "timeout"
           /\ initial_fetch.st = "running"
           /\ initial_fetch'.st # "running")
          => (/\ sent' = sent
              /\ pc' = pc
              /\ fetched' = fetched
              /\ initial_fetch'.result = NoResult)]_vars
    /\ [][(initialArm = "timeout" /\ sent' # sent)
          => \/ /\ pc = "Streaming"
                /\ inbound # <<>>
                /\ Head(inbound) = "Ping"
                /\ sent' = Append(sent, PongMsg(sockUp))
             \/ /\ pc = "TickMatch"
                /\ fetched.ok
                /\ sent' = Append(sent, PriceUpdate(fetched.candles, sockUp))]_vars

\* the task has ended after the wait timed out; the client has the ack only
C17_Witness ==
    /\ initialArm = "timeout"
    /\ initial_fetch.st = "finished"
    /\ pc = "Streaming"
    /\ ticks = 0
    /\ sent = <<Ack>>

\* C18: when the timer is created the first tick is due one full interval
\* later, and when a tick starts a fetch the next tick is due at least one
\* interval later: no timer-driven fetch starts less than IntervalSecs after
\* the timer was created or after the previous timer-driven fetch started.
C18_FetchesOneIntervalApart ==
    /\ [][(pc = "AwaitingInitialFetch" /\ pc' = "Streaming")
            => interval' >= IntervalSecs]_vars
    /\ [][(pc = "Streaming" /\ pc' = "TickFetch")
            => interval' >= IntervalSecs]_vars

\* C19: no empty-candle PriceUpdate follows a PriceUpdate with candles, and
\* no message sent from the loop is an empty-candle PriceUpdate.
C19_EmptyOnlyBeforeData ==
    /\ [](\A i \in 1 .. Len(sent) : \A j \in 1 .. Len(sent) :
            (i < j /\ IsDataUpdate(sent[i])) => ~IsEmptyUpdate(sent[j]))
    /\ [][(pc \in {"Streaming", "TickFetch", "TickMatch"} /\ sent' # sent)
            => (/\ Len(sent') = Len(sent) + 1
                /\ ~IsEmptyUpdate(Last(sent')))]_vars

\* data of the initial fetch, then data of the first tick
C19_Witness ==
    /\ pc = "Streaming"
    /\ initialArm = "data"
    /\ ticks = 1
    /\ Len(sent) = 3
    /\ IsEmptyUpdate(sent[1])
    /\ IsDataUpdate(sent[2])
    /\ IsDataUpdate(sent[3])

\* some send made on the connection has failed
SendFailed == \E i \in 1 .. Len(sent) : ~sent[i].ok

\* C20 as stated: once a send has failed, handle_socket makes no further send
\* and starts no further fetch (it neither spawns the initial fetch nor
\* starts a gateway call).
C20_Original ==
    [][SendFailed
       => (/\ sent' = sent
           /\ inflight' \subseteq inflight
           /\ initial_fetch.st = "unspawned" => initial_fetch'.st = "unspawned")]_vars

\* C20 amended: a failed send of timer-driven data ends the loop, and after
\* that handle_socket makes no send and starts no fetch; a failed send of the
\* ack, of the outcome of the initial fetch or of a Pong is ignored:
\* handle_socket goes where it would have gone had the send succeeded.
C20_Amended ==
    /\ [][(pc = "TickMatch" /\ sent' # sent /\ ~Last(sent').ok) => pc' = "Closed"]_vars
    /\ [][pc = "Closed"
          => (/\ pc' = "Closed"
              /\ sent' = sent
              /\ ticks' = ticks
              /\ inflight' \ {0} = {})]_vars
    /\ [][(pc # "TickMatch" /\ sent' # sent /\ ~Last(sent').ok)
          => pc' = CASE pc = "Connecting" -> "Spawning"
                     [] pc = "AwaitingInitialFetch" -> "Streaming"
                     [] OTHER -> pc]_vars

\* the ack and the initial data could not be sent; the first timer-driven
\* fetch is in flight all the same
C20_Witness ==
    /\ pc = "TickFetch"
    /\ ticks = 1
    /\ Len(sent) = 2
    /\ ~sent[1].ok
    /\ ~sent[2].ok
    /\ IsDataUpdate(sent[2])

====
